---- MODULE Spec2Model ----
(***************************************************************************)
(* A model of package generics (src/generics/generics.go): the reflection  *)
(* based generic operations Map, Filter, Reject, Foldr, Foldl, Find,       *)
(* FindIndex, Some, Every, Count, Max and Min, and of package illegal:     *)
(* FuncEqual, ConvertSlice and ConvertSliceType.  A call takes opaque      *)
(* (interface{}) arguments, inspects them through package reflect, panics  *)
(* on a shape mismatch and otherwise drives the callback over the slice.   *)
(*                                                                         *)
(* Values.  An interface{} holding a concrete value and the reflect.Value  *)
(* obtained from it are the same record [t |-> type, v |-> payload].  The  *)
(* nil interface is NilIface; reflect.ValueOf(nil) is the zero Value, of   *)
(* Kind Invalid.  An element of a slice whose element type is interface{}  *)
(* is the reflect.Value [t |-> "iface", v |-> d], d the dynamic value it   *)
(* holds (possibly NilIface).  A function value is a closure: a code       *)
(* address, the captured environment and the declared signature.           *)
(***************************************************************************)
EXTENDS Integers, Sequences, FiniteSets, TLC

\* Bounds of the model: the longest slice and the largest int element.
MaxLen == 3

MaxInt == 3

VARIABLES pc, op, slc, fn, zero, fn2, target, ret, err, calls

vars == <<pc, op, slc, fn, zero, fn2, target, ret, err, calls>>

----------------------------------------------------------------------------
\* Values and types

IntV(n) == [t |-> "int", v |-> n]

BoolV(b) == [t |-> "bool", v |-> b]

NilIface == [t |-> "nil", v |-> 0]

IfaceV(d) == [t |-> "iface", v |-> d]

\* a float64, its payload counted in halves (FloatV(3) is 1.5)
FloatV(h) == [t |-> "float64", v |-> h]

Int64V(n) == [t |-> "int64", v |-> n]

\* a string, its payload the sequence of its code points
StringV(cps) == [t |-> "string", v |-> cps]

\* a reflect.Type held in an interface{}
TypeV(name) == [t |-> "type", v |-> name]

\* a slice value is a view of a backing array: arr names the array, items
\* are the elements seen through the view.  SliceV is a slice the caller
\* built, over the caller's array.
SliceV(e, items) ==
    [t |-> "slice", elem |-> e, items |-> items, arr |-> "caller"]

FuncV(code, env, in, out) ==
    [t |-> "func", code |-> code, env |-> env, in |-> in, out |-> out]

boolType == "bool"

\* reflect.Value.Kind
Kind(x) ==
    CASE x.t = "nil" -> "invalid"
      [] x.t = "iface" -> "interface"
      [] OTHER -> x.t

\* reflect.Value.Interface: the value as an interface{}.  A Value of Kind
\* Interface yields the dynamic value it holds, nil for a nil element.
Interface(x) == IF x.t = "iface" THEN x.v ELSE x

\* reflect.Value.Len and reflect.Value.Index (0-based) of a slice
SliceLen(slice) == Len(slice.items)

Index(slice, i) == slice.items[i + 1]

\* reflect.Zero: the zero value of an element type
ZeroOf(typ) ==
    CASE typ = "int" -> IntV(0)
      [] typ = "bool" -> BoolV(FALSE)
      [] typ = "int64" -> Int64V(0)
      [] typ = "float64" -> FloatV(0)
      [] typ = "string" -> StringV(<<>>)
      [] OTHER -> IfaceV(NilIface)

\* reflect.MakeSlice(reflect.SliceOf(typ), n, n): a view of a newly
\* allocated array
MakeSlice(typ, n) ==
    [t |-> "slice", elem |-> typ, items |-> [k \in 1..n |-> ZeroOf(typ)],
     arr |-> "fresh"]

\* reflect.Value.Set on ret.Index(i)
SetIndex(slice, i, x) == [slice EXCEPT !.items[i + 1] = x]

\* reflect.Append
AppendSlice(slice, x) == [slice EXCEPT !.items = Append(@, x)]

\* fType.NumIn, fType.NumOut
NumIn(f) == Len(f.in)

NumOut(f) == Len(f.out)

----------------------------------------------------------------------------
\* The callbacks: f.Call(args) runs the closure's code on args and returns
\* the list of its results.

Call(f, args) ==
    CASE f.code = "inSet" -> <<BoolV(args[1] \in f.env)>>
      [] f.code = "square" -> <<IntV(args[1].v * args[1].v)>>
      [] f.code = "succ" -> <<IntV(args[1].v + 1)>>
      [] f.code = "box" -> <<IfaceV(args[1])>>
      [] f.code = "add" -> <<IntV(args[1].v + args[2].v)>>
      [] f.code = "subFirst" -> <<IntV(args[2].v - args[1].v)>>
      [] f.code = "subSecond" -> <<IntV(args[1].v - args[2].v)>>
      [] f.code = "affine" -> <<IntV(args[1].v + f.env * args[2].v)>>
      [] f.code = "const" -> <<f.env>>
      [] f.code = "less" -> <<BoolV(args[1].v < args[2].v)>>
      [] f.code = "greater" -> <<BoolV(args[1].v > args[2].v)>>
      [] f.code = "lessEq" -> <<BoolV(args[1].v <= args[2].v)>>
      [] f.code = "notEq" -> <<BoolV(args[1].v # args[2].v)>>
      [] f.code = "beats" -> <<BoolV((args[1].v + 1) % 3 = args[2].v % 3)>>
      [] f.code = "inPairs" -> <<BoolV(<<args[1], args[2]>> \in f.env)>>
      [] f.code = "pair" -> <<args[1], args[1]>>
      [] OTHER -> <<>>

----------------------------------------------------------------------------
\* Outcome of a call: the returned interface{} (NilIface after a panic), the
\* failure kind ("none" when the call returned) and the argument lists of
\* the callback invocations, in the order they were made.

Returned(r, cs) == [ret |-> r, err |-> "none", calls |-> cs]

Panic(kind) == [ret |-> NilIface, err |-> kind, calls |-> <<>>]

----------------------------------------------------------------------------
\* func Map(slc []T, pred func(T) U) []U

\* MapLoop stopping one element early (i < slice.Len() - 1)
RECURSIVE MapLoopShort(_, _, _, _, _)
MapLoopShort(slice, f, i, r, cs) ==
    IF i < SliceLen(slice) - 1
    THEN LET args == <<Index(slice, i)>>
         IN MapLoopShort(slice, f, i + 1, SetIndex(r, i, Call(f, args)[1]),
                         Append(cs, args))
    ELSE Returned(r, cs)

RECURSIVE MapLoop(_, _, _, _, _)
MapLoop(slice, f, i, r, cs) ==
    IF i < SliceLen(slice)
    THEN LET args == <<Index(slice, i)>>
         IN MapLoop(slice, f, i + 1, SetIndex(r, i, Call(f, args)[1]),
                    Append(cs, args))
    ELSE Returned(r, cs)

\* Map without the check that pred returns a single result
MapNoOutCheck(s, pred) ==
    IF Kind(s) # "slice" THEN Panic("NotASequence")
    ELSE IF Kind(pred) # "func" THEN Panic("NotACallable")
    ELSE IF NumIn(pred) # 1 \/ NumOut(pred) < 1 \/ pred.in[1] # s.elem
    THEN Panic("SignatureMismatch")
    ELSE MapLoop(s, pred, 0, MakeSlice(pred.out[1], SliceLen(s)), <<>>)

\* Map allocating its result with the type of the input slice
MapElemTyped(s, pred) ==
    IF Kind(s) # "slice" THEN Panic("NotASequence")
    ELSE IF Kind(pred) # "func" THEN Panic("NotACallable")
    ELSE IF NumIn(pred) # 1 \/ NumOut(pred) # 1 \/ pred.in[1] # s.elem
    THEN Panic("SignatureMismatch")
    ELSE MapLoop(s, pred, 0, MakeSlice(s.elem, SliceLen(s)), <<>>)

\* Map storing the results in the input slice and returning it
MapInPlace(s, pred) ==
    IF Kind(s) # "slice" THEN Panic("NotASequence")
    ELSE IF Kind(pred) # "func" THEN Panic("NotACallable")
    ELSE IF NumIn(pred) # 1 \/ NumOut(pred) # 1 \/ pred.in[1] # s.elem
    THEN Panic("SignatureMismatch")
    ELSE MapLoop(s, pred, 0, s, <<>>)

Map(s, pred) ==
    IF Kind(s) # "slice" THEN Panic("NotASequence")
    ELSE IF Kind(pred) # "func" THEN Panic("NotACallable")
    ELSE IF NumIn(pred) # 1 \/ NumOut(pred) # 1 \/ pred.in[1] # s.elem
    THEN Panic("SignatureMismatch")
    ELSE MapLoop(s, pred, 0, MakeSlice(pred.out[1], SliceLen(s)), <<>>)

----------------------------------------------------------------------------
\* The signature check shared by Filter, Reject, Find, FindIndex and Some:
\* pred must be func(T) bool for the slice's element type T.

PredMismatch(s, pred) ==
    \/ NumIn(pred) # 1
    \/ NumOut(pred) # 1
    \/ pred.in[1] # s.elem
    \/ pred.out[1] # boolType

----------------------------------------------------------------------------
\* func Filter(slc []T, pred func(T) bool) []T

\* FilterLoop building the result in front (kept elements come out reversed)
RECURSIVE FilterLoopPrepend(_, _, _, _, _)
FilterLoopPrepend(slice, f, i, r, cs) ==
    IF i < SliceLen(slice)
    THEN LET args == <<Index(slice, i)>>
         IN FilterLoopPrepend(slice, f, i + 1,
                              IF Call(f, args)[1].v
                              THEN [r EXCEPT !.items = <<args[1]>> \o @]
                              ELSE r,
                              Append(cs, args))
    ELSE Returned(r, cs)

RECURSIVE FilterLoop(_, _, _, _, _)
FilterLoop(slice, f, i, r, cs) ==
    IF i < SliceLen(slice)
    THEN LET args == <<Index(slice, i)>>
         IN FilterLoop(slice, f, i + 1,
                       IF Call(f, args)[1].v THEN AppendSlice(r, args[1]) ELSE r,
                       Append(cs, args))
    ELSE Returned(r, cs)

\* Filter inspecting pred before slc
FilterFuncFirst(s, pred) ==
    IF Kind(pred) # "func" THEN Panic("NotACallable")
    ELSE IF Kind(s) # "slice" THEN Panic("NotASequence")
    ELSE IF PredMismatch(s, pred) THEN Panic("SignatureMismatch")
    ELSE FilterLoop(s, pred, 0, MakeSlice(s.elem, 0), <<>>)

Filter(s, pred) ==
    IF Kind(s) # "slice" THEN Panic("NotASequence")
    ELSE IF Kind(pred) # "func" THEN Panic("NotACallable")
    ELSE IF PredMismatch(s, pred) THEN Panic("SignatureMismatch")
    ELSE FilterLoop(s, pred, 0, MakeSlice(s.elem, 0), <<>>)

----------------------------------------------------------------------------
\* func Reject(slc []T, pred func(T) bool) []T

\* RejectLoop with the negation of the test dropped
RECURSIVE RejectLoopKeep(_, _, _, _, _)
RejectLoopKeep(slice, f, i, r, cs) ==
    IF i < SliceLen(slice)
    THEN LET args == <<Index(slice, i)>>
         IN RejectLoopKeep(slice, f, i + 1,
                           IF Call(f, args)[1].v THEN AppendSlice(r, args[1]) ELSE r,
                           Append(cs, args))
    ELSE Returned(r, cs)

RECURSIVE RejectLoop(_, _, _, _, _)
RejectLoop(slice, f, i, r, cs) ==
    IF i < SliceLen(slice)
    THEN LET args == <<Index(slice, i)>>
         IN RejectLoop(slice, f, i + 1,
                       IF ~Call(f, args)[1].v THEN AppendSlice(r, args[1]) ELSE r,
                       Append(cs, args))
    ELSE Returned(r, cs)

Reject(s, pred) ==
    IF Kind(s) # "slice" THEN Panic("NotASequence")
    ELSE IF Kind(pred) # "func" THEN Panic("NotACallable")
    ELSE IF PredMismatch(s, pred) THEN Panic("SignatureMismatch")
    ELSE RejectLoop(s, pred, 0, MakeSlice(s.elem, 0), <<>>)

----------------------------------------------------------------------------
\* func Foldr(slc []T, zero U, pred func(T, U) U) U
\* z.Type() in the zero-type check panics inside package reflect when zero
\* is the nil interface (z is then the zero Value): "ReflectPanic".

\* FoldrLoop passing the accumulator first and the element second
RECURSIVE FoldrLoopSwapped(_, _, _, _, _)
FoldrLoopSwapped(slice, f, i, acc, cs) ==
    IF i < SliceLen(slice)
    THEN LET args == <<acc, Index(slice, i)>>
         IN FoldrLoopSwapped(slice, f, i + 1, Call(f, args)[1], Append(cs, args))
    ELSE Returned(Interface(acc), cs)

RECURSIVE FoldrLoop(_, _, _, _, _)
FoldrLoop(slice, f, i, acc, cs) ==
    IF i < SliceLen(slice)
    THEN LET args == <<Index(slice, i), acc>>
         IN FoldrLoop(slice, f, i + 1, Call(f, args)[1], Append(cs, args))
    ELSE Returned(Interface(acc), cs)

\* Foldr comparing the type of zero with the element parameter's type
FoldrZeroAgainstElem(s, z, pred) ==
    IF Kind(s) # "slice" THEN Panic("NotASequence")
    ELSE IF Kind(pred) # "func" THEN Panic("NotACallable")
    ELSE IF \/ NumIn(pred) # 2
            \/ NumOut(pred) # 1
            \/ pred.in[1] # s.elem
            \/ pred.in[2] # pred.out[1]
    THEN Panic("SignatureMismatch")
    ELSE IF Kind(z) = "invalid" THEN Panic("ReflectPanic")
    ELSE IF pred.in[1] # z.t THEN Panic("ZeroTypeMismatch")
    ELSE FoldrLoop(s, pred, 0, z, <<>>)

Foldr(s, z, pred) ==
    IF Kind(s) # "slice" THEN Panic("NotASequence")
    ELSE IF Kind(pred) # "func" THEN Panic("NotACallable")
    ELSE IF \/ NumIn(pred) # 2
            \/ NumOut(pred) # 1
            \/ pred.in[1] # s.elem
            \/ pred.in[2] # pred.out[1]
    THEN Panic("SignatureMismatch")
    ELSE IF Kind(z) = "invalid" THEN Panic("ReflectPanic")
    ELSE IF pred.out[1] # z.t THEN Panic("ZeroTypeMismatch")
    ELSE FoldrLoop(s, pred, 0, z, <<>>)

----------------------------------------------------------------------------
\* func Foldl(slc []T, zero U, pred func(U, T) U) U
\* (z.Type() on a nil zero panics inside package reflect, as in Foldr)

\* FoldlLoop walking the slice from the first element to the last
RECURSIVE FoldlLoopForward(_, _, _, _, _)
FoldlLoopForward(slice, f, i, acc, cs) ==
    IF i > -1
    THEN LET args == <<acc, Index(slice, SliceLen(slice) - 1 - i)>>
         IN FoldlLoopForward(slice, f, i - 1, Call(f, args)[1], Append(cs, args))
    ELSE Returned(Interface(acc), cs)

RECURSIVE FoldlLoop(_, _, _, _, _)
FoldlLoop(slice, f, i, acc, cs) ==
    IF i > -1
    THEN LET args == <<acc, Index(slice, i)>>
         IN FoldlLoop(slice, f, i - 1, Call(f, args)[1], Append(cs, args))
    ELSE Returned(Interface(acc), cs)

\* Foldl starting from the zero value of the accumulator type instead of zero
FoldlFromTypeZero(s, z, pred) ==
    IF Kind(s) # "slice" THEN Panic("NotASequence")
    ELSE IF Kind(pred) # "func" THEN Panic("NotACallable")
    ELSE IF \/ NumIn(pred) # 2
            \/ NumOut(pred) # 1
            \/ pred.in[2] # s.elem
            \/ pred.in[1] # pred.out[1]
    THEN Panic("SignatureMismatch")
    ELSE IF Kind(z) = "invalid" THEN Panic("ReflectPanic")
    ELSE IF pred.out[1] # z.t THEN Panic("ZeroTypeMismatch")
    ELSE FoldlLoop(s, pred, SliceLen(s) - 1, ZeroOf(pred.out[1]), <<>>)

\* Foldl accepting every zero value assignable to the accumulator type
FoldlAssignable(s, z, pred) ==
    IF Kind(s) # "slice" THEN Panic("NotASequence")
    ELSE IF Kind(pred) # "func" THEN Panic("NotACallable")
    ELSE IF \/ NumIn(pred) # 2
            \/ NumOut(pred) # 1
            \/ pred.in[2] # s.elem
            \/ pred.in[1] # pred.out[1]
    THEN Panic("SignatureMismatch")
    ELSE IF Kind(z) = "invalid" THEN Panic("ReflectPanic")
    ELSE IF pred.out[1] # "iface" /\ pred.out[1] # z.t
    THEN Panic("ZeroTypeMismatch")
    ELSE FoldlLoop(s, pred, SliceLen(s) - 1, z, <<>>)

Foldl(s, z, pred) ==
    IF Kind(s) # "slice" THEN Panic("NotASequence")
    ELSE IF Kind(pred) # "func" THEN Panic("NotACallable")
    ELSE IF \/ NumIn(pred) # 2
            \/ NumOut(pred) # 1
            \/ pred.in[2] # s.elem
            \/ pred.in[1] # pred.out[1]
    THEN Panic("SignatureMismatch")
    ELSE IF Kind(z) = "invalid" THEN Panic("ReflectPanic")
    ELSE IF pred.out[1] # z.t THEN Panic("ZeroTypeMismatch")
    ELSE FoldlLoop(s, pred, SliceLen(s) - 1, z, <<>>)

----------------------------------------------------------------------------
\* func Find(slc []T, pred func(T) bool) T

\* FindLoop returning the last match instead of the first
RECURSIVE FindLoopLast(_, _, _, _)
FindLoopLast(slice, f, i, cs) ==
    IF i < SliceLen(slice)
    THEN LET args == <<Index(slice, i)>>
             later == \E j \in (i + 1)..(SliceLen(slice) - 1) :
                          Call(f, <<Index(slice, j)>>)[1].v
         IN IF Call(f, args)[1].v /\ ~later
            THEN Returned(Interface(args[1]), Append(cs, args))
            ELSE FindLoopLast(slice, f, i + 1, Append(cs, args))
    ELSE Returned(NilIface, cs)

RECURSIVE FindLoop(_, _, _, _)
FindLoop(slice, f, i, cs) ==
    IF i < SliceLen(slice)
    THEN LET args == <<Index(slice, i)>>
         IN IF Call(f, args)[1].v
            THEN Returned(Interface(args[1]), Append(cs, args))
            ELSE FindLoop(slice, f, i + 1, Append(cs, args))
    ELSE Returned(NilIface, cs)

Find(s, pred) ==
    IF Kind(s) # "slice" THEN Panic("NotASequence")
    ELSE IF Kind(pred) # "func" THEN Panic("NotACallable")
    ELSE IF PredMismatch(s, pred) THEN Panic("SignatureMismatch")
    ELSE FindLoop(s, pred, 0, <<>>)

----------------------------------------------------------------------------
\* func FindIndex(slc []T, pred func(T) bool) int

\* FindIndexLoop reporting the not-found case as len(slc)
RECURSIVE FindIndexLoopLen(_, _, _, _)
FindIndexLoopLen(slice, f, i, cs) ==
    IF i < SliceLen(slice)
    THEN LET args == <<Index(slice, i)>>
         IN IF Call(f, args)[1].v
            THEN Returned(IntV(i), Append(cs, args))
            ELSE FindIndexLoopLen(slice, f, i + 1, Append(cs, args))
    ELSE Returned(IntV(i), cs)

RECURSIVE FindIndexLoop(_, _, _, _)
FindIndexLoop(slice, f, i, cs) ==
    IF i < SliceLen(slice)
    THEN LET args == <<Index(slice, i)>>
         IN IF Call(f, args)[1].v
            THEN Returned(IntV(i), Append(cs, args))
            ELSE FindIndexLoop(slice, f, i + 1, Append(cs, args))
    ELSE Returned(IntV(-1), cs)

FindIndex(s, pred) ==
    IF Kind(s) # "slice" THEN Panic("NotASequence")
    ELSE IF Kind(pred) # "func" THEN Panic("NotACallable")
    ELSE IF PredMismatch(s, pred) THEN Panic("SignatureMismatch")
    ELSE FindIndexLoop(s, pred, 0, <<>>)

----------------------------------------------------------------------------
\* func Some(slc []T, pred func(T) bool) bool

\* SomeLoop visiting every element before answering
RECURSIVE SomeLoopFull(_, _, _, _)
SomeLoopFull(slice, f, i, cs) ==
    IF i < SliceLen(slice)
    THEN SomeLoopFull(slice, f, i + 1, Append(cs, <<Index(slice, i)>>))
    ELSE Returned(BoolV(\E k \in 1..Len(cs) : Call(f, cs[k])[1].v), cs)

RECURSIVE SomeLoop(_, _, _, _)
SomeLoop(slice, f, i, cs) ==
    IF i < SliceLen(slice)
    THEN LET args == <<Index(slice, i)>>
         IN IF Call(f, args)[1].v
            THEN Returned(BoolV(TRUE), Append(cs, args))
            ELSE SomeLoop(slice, f, i + 1, Append(cs, args))
    ELSE Returned(BoolV(FALSE), cs)

Some(s, pred) ==
    IF Kind(s) # "slice" THEN Panic("NotASequence")
    ELSE IF Kind(pred) # "func" THEN Panic("NotACallable")
    ELSE IF PredMismatch(s, pred) THEN Panic("SignatureMismatch")
    ELSE SomeLoop(s, pred, 0, <<>>)

----------------------------------------------------------------------------
\* func Every(slc []T, pred func(T) bool) bool

\* EveryLoop visiting every element before answering
RECURSIVE EveryLoopFull(_, _, _, _)
EveryLoopFull(slice, f, i, cs) ==
    IF i < SliceLen(slice)
    THEN EveryLoopFull(slice, f, i + 1, Append(cs, <<Index(slice, i)>>))
    ELSE Returned(BoolV(\A k \in 1..Len(cs) : Call(f, cs[k])[1].v), cs)

RECURSIVE EveryLoop(_, _, _, _)
EveryLoop(slice, f, i, cs) ==
    IF i < SliceLen(slice)
    THEN LET args == <<Index(slice, i)>>
         IN IF ~Call(f, args)[1].v
            THEN Returned(BoolV(FALSE), Append(cs, args))
            ELSE EveryLoop(slice, f, i + 1, Append(cs, args))
    ELSE Returned(BoolV(TRUE), cs)

\* Every answering as Some does
EveryAsSome(s, pred) ==
    IF Kind(s) # "slice" THEN Panic("NotASequence")
    ELSE IF Kind(pred) # "func" THEN Panic("NotACallable")
    ELSE IF PredMismatch(s, pred) THEN Panic("SignatureMismatch")
    ELSE SomeLoop(s, pred, 0, <<>>)

Every(s, pred) ==
    IF Kind(s) # "slice" THEN Panic("NotASequence")
    ELSE IF Kind(pred) # "func" THEN Panic("NotACallable")
    ELSE IF PredMismatch(s, pred) THEN Panic("SignatureMismatch")
    ELSE EveryLoop(s, pred, 0, <<>>)

----------------------------------------------------------------------------
\* func Count(slc []T, pred func(T) bool) int

\* CountLoop starting at index 1
RECURSIVE CountLoopSkipFirst(_, _, _, _, _)
CountLoopSkipFirst(slice, f, i, n, cs) ==
    IF i = 0 /\ SliceLen(slice) > 0
    THEN CountLoopSkipFirst(slice, f, 1, n, cs)
    ELSE IF i < SliceLen(slice)
    THEN LET args == <<Index(slice, i)>>
         IN CountLoopSkipFirst(slice, f, i + 1,
                               IF Call(f, args)[1].v THEN n + 1 ELSE n,
                               Append(cs, args))
    ELSE Returned(IntV(n), cs)

RECURSIVE CountLoop(_, _, _, _, _)
CountLoop(slice, f, i, n, cs) ==
    IF i < SliceLen(slice)
    THEN LET args == <<Index(slice, i)>>
         IN CountLoop(slice, f, i + 1,
                      IF Call(f, args)[1].v THEN n + 1 ELSE n,
                      Append(cs, args))
    ELSE Returned(IntV(n), cs)

Count(s, pred) ==
    IF Kind(s) # "slice" THEN Panic("NotASequence")
    ELSE IF Kind(pred) # "func" THEN Panic("NotACallable")
    ELSE IF PredMismatch(s, pred) THEN Panic("SignatureMismatch")
    ELSE CountLoop(s, pred, 0, 0, <<>>)

----------------------------------------------------------------------------
\* The signature check shared by Max and Min: less must be func(T, T) bool.

LessMismatch(s, less) ==
    \/ NumIn(less) # 2
    \/ NumOut(less) # 1
    \/ less.in[1] # s.elem
    \/ less.in[2] # s.elem
    \/ less.out[1] # boolType

----------------------------------------------------------------------------
\* func Max(slc []T, less func(T, T) bool) T

\* MaxLoop calling less(candidate, best)
RECURSIVE MaxLoopSwapped(_, _, _, _, _)
MaxLoopSwapped(slice, f, i, best, cs) ==
    IF i < SliceLen(slice)
    THEN LET args == <<Index(slice, i), best>>
         IN MaxLoopSwapped(slice, f, i + 1,
                           IF Call(f, args)[1].v THEN args[1] ELSE best,
                           Append(cs, args))
    ELSE Returned(Interface(best), cs)

RECURSIVE MaxLoop(_, _, _, _, _)
MaxLoop(slice, f, i, best, cs) ==
    IF i < SliceLen(slice)
    THEN LET args == <<best, Index(slice, i)>>
         IN MaxLoop(slice, f, i + 1,
                    IF Call(f, args)[1].v THEN args[2] ELSE best,
                    Append(cs, args))
    ELSE Returned(Interface(best), cs)

\* Max returning the last element without comparing
MaxReturnsLast(s, less) ==
    IF Kind(s) # "slice" THEN Panic("NotASequence")
    ELSE IF Kind(less) # "func" THEN Panic("NotACallable")
    ELSE IF LessMismatch(s, less) THEN Panic("SignatureMismatch")
    ELSE IF SliceLen(s) = 0 THEN Returned(NilIface, <<>>)
    ELSE Returned(Interface(Index(s, SliceLen(s) - 1)), <<>>)

Max(s, less) ==
    IF Kind(s) # "slice" THEN Panic("NotASequence")
    ELSE IF Kind(less) # "func" THEN Panic("NotACallable")
    ELSE IF LessMismatch(s, less) THEN Panic("SignatureMismatch")
    ELSE IF SliceLen(s) = 0 THEN Returned(NilIface, <<>>)
    ELSE MaxLoop(s, less, 1, Index(s, 0), <<>>)

----------------------------------------------------------------------------
\* func Min(slc []T, less func(T, T) bool) T

\* MinLoop calling less(best, candidate)
RECURSIVE MinLoopSwapped(_, _, _, _, _)
MinLoopSwapped(slice, f, i, best, cs) ==
    IF i < SliceLen(slice)
    THEN LET args == <<best, Index(slice, i)>>
         IN MinLoopSwapped(slice, f, i + 1,
                           IF Call(f, args)[1].v THEN args[2] ELSE best,
                           Append(cs, args))
    ELSE Returned(Interface(best), cs)

RECURSIVE MinLoop(_, _, _, _, _)
MinLoop(slice, f, i, best, cs) ==
    IF i < SliceLen(slice)
    THEN LET args == <<Index(slice, i), best>>
         IN MinLoop(slice, f, i + 1,
                    IF Call(f, args)[1].v THEN args[1] ELSE best,
                    Append(cs, args))
    ELSE Returned(Interface(best), cs)

\* Min starting its scan at index 0, comparing the first element with itself
MinFromZero(s, less) ==
    IF Kind(s) # "slice" THEN Panic("NotASequence")
    ELSE IF Kind(less) # "func" THEN Panic("NotACallable")
    ELSE IF LessMismatch(s, less) THEN Panic("SignatureMismatch")
    ELSE IF SliceLen(s) = 0 THEN Returned(NilIface, <<>>)
    ELSE MinLoop(s, less, 0, Index(s, 0), <<>>)

Min(s, less) ==
    IF Kind(s) # "slice" THEN Panic("NotASequence")
    ELSE IF Kind(less) # "func" THEN Panic("NotACallable")
    ELSE IF LessMismatch(s, less) THEN Panic("SignatureMismatch")
    ELSE IF SliceLen(s) = 0 THEN Returned(NilIface, <<>>)
    ELSE MinLoop(s, less, 1, Index(s, 0), <<>>)

----------------------------------------------------------------------------
\* func FuncEqual(f1, f2 interface{}) bool  (package illegal)

\* reflect.Value.Pointer of a func: the address of its code.  The closures
\* made by one function literal share it whatever they captured; literals
\* and methods are told apart by their name and signature.
Pointer(f) == [code |-> f.code, in |-> f.in, out |-> f.out]

\* FuncEqual comparing the function values, captured variables included
FuncEqualByValue(f1, f2) ==
    IF f1.t = "nil" THEN Panic("NilDereference")
    ELSE IF f1.t # "func" THEN Panic("NotACallable")
    ELSE IF f2.t = "nil" THEN Panic("NilDereference")
    ELSE IF f2.t # "func" THEN Panic("NotACallable")
    ELSE Returned(BoolV(f1 = f2), <<>>)

\* reflect.TypeOf(nil) is the nil Type and calling Kind on it dereferences
\* nil: a runtime panic ("NilDereference"), raised before the comparison
\* with reflect.Func.  The right operand of || is evaluated only when f1 is
\* a function.
FuncEqual(f1, f2) ==
    IF f1.t = "nil" THEN Panic("NilDereference")
    ELSE IF f1.t # "func" THEN Panic("NotACallable")
    ELSE IF f2.t = "nil" THEN Panic("NilDereference")
    ELSE IF f2.t # "func" THEN Panic("NotACallable")
    ELSE Returned(BoolV(Pointer(f1) = Pointer(f2)), <<>>)

----------------------------------------------------------------------------
\* ConvertSlice, ConvertSliceType and convertSliceType  (package illegal)

\* reflect.TypeOf(example): the nil Type for a nil example
TypeOf(x) == IF x.t = "nil" THEN NilIface ELSE TypeV(x.t)

NumericTypes == {"int", "int64", "float64"}

\* reflect.Type.ConvertibleTo between the element types src and dst
ConvertibleTo(src, dst) ==
    \/ src = dst
    \/ dst = "iface"
    \/ src \in NumericTypes /\ dst \in NumericTypes
    \/ src \in {"int", "int64"} /\ dst = "string"

\* slice.Type().ConvertibleTo(typ) for the slice type itself: a slice
\* converts to interface{} and to none of the scalar types
SliceTypeConvertibleTo(elem, dst) == dst = "iface"

\* reflect.Value.Convert of the element x to the type dst
Convert(x, dst) ==
    CASE x.t = dst -> x
      [] dst = "iface" -> IfaceV(x)
      [] dst = "float64" -> FloatV(2 * x.v)
      [] dst = "string" -> StringV(<<x.v>>)
      [] x.t = "float64" -> [t |-> dst, v |-> x.v \div 2]
      [] OTHER -> [t |-> dst, v |-> x.v]

\* ConvertLoop handing the slice filled so far to the caller together with
\* the failure
RECURSIVE ConvertLoopPartial(_, _, _, _)
ConvertLoopPartial(slice, typ, i, r) ==
    IF i < SliceLen(slice)
    THEN IF ~ConvertibleTo(Index(slice, i).t, typ)
         THEN [ret |-> r, err |-> "NotConvertible", calls |-> <<>>]
         ELSE ConvertLoopPartial(slice, typ, i + 1,
                                 SetIndex(r, i, Convert(Index(slice, i), typ)))
    ELSE IF SliceLen(slice) = 0 /\ ~SliceTypeConvertibleTo(slice.elem, typ)
    THEN Panic("NotConvertible")
    ELSE Returned(r, <<>>)

\* the conversion loop; a Convert that is not allowed panics and the
\* deferred recover of convertSliceType turns it into "cannot convert type"
RECURSIVE ConvertLoop(_, _, _, _)
ConvertLoop(slice, typ, i, r) ==
    IF i < SliceLen(slice)
    THEN IF ~ConvertibleTo(Index(slice, i).t, typ)
         THEN Panic("NotConvertible")
         ELSE ConvertLoop(slice, typ, i + 1,
                          SetIndex(r, i, Convert(Index(slice, i), typ)))
    ELSE IF SliceLen(slice) = 0 /\ ~SliceTypeConvertibleTo(slice.elem, typ)
    THEN Panic("NotConvertible")
    ELSE Returned(r, <<>>)

\* With a nil typ reflect.SliceOf panics, and the deferred function that
\* builds the message panics in turn on typ.String(): a panic whose value is
\* no string ("RuntimeError").
convertSliceType(s, typ) ==
    IF Kind(s) # "slice" THEN Panic("NotASequence")
    ELSE IF typ.t = "nil" THEN Panic("RuntimeError")
    ELSE ConvertLoop(s, typ.v, 0, MakeSlice(typ.v, SliceLen(s)))

\* the deferred recover of the exported functions: a string panic is passed
\* on with the prefix "illegal.<name>: ", any other becomes the internal
\* error, which names the function as well; name is the function named by
\* the failure
Recovered(name, r) ==
    IF r.err = "none" THEN r
    ELSE [ret |-> r.ret,
          err |-> IF r.err = "RuntimeError" THEN "InternalError" ELSE r.err,
          calls |-> r.calls,
          name |-> name]

\* ConvertSlice converting to interface{} whatever the example is
ConvertSliceToIface(s, example) ==
    Recovered("ConvertSlice", convertSliceType(s, TypeV("iface")))

ConvertSlice(s, example) ==
    Recovered("ConvertSlice", convertSliceType(s, TypeOf(example)))

ConvertSliceType(s, typ) ==
    Recovered("ConvertSliceType", convertSliceType(s, typ))

----------------------------------------------------------------------------
\* The arguments a caller may pass

Ints == 0..MaxInt

ElemTypes == {"int", "bool", "iface"}

ElemsOf(typ) ==
    CASE typ = "int" -> {IntV(n) : n \in Ints}
      [] typ = "bool" -> {BoolV(b) : b \in BOOLEAN}
      [] OTHER -> {IfaceV(NilIface), IfaceV(IntV(0))}

SeqsOf(S) == UNION {[1..n -> S] : n \in 0..MaxLen}

Slices == UNION {{SliceV(e, items) : items \in SeqsOf(ElemsOf(e))} : e \in ElemTypes}

\* func(x T) bool { return set[x] }, one closure per captured set
Preds == UNION {{FuncV("inSet", S, <<e>>, <<"bool">>) : S \in SUBSET ElemsOf(e)} : e \in ElemTypes}

Mappers ==
    {FuncV(c, 0, <<"int">>, <<"int">>) : c \in {"square", "succ"}}
    \cup {FuncV("box", 0, <<e>>, <<"iface">>) : e \in {"int", "bool"}}
    \cup {FuncV("const", BoolV(FALSE), <<e>>, <<"bool">>) : e \in ElemTypes}

Folders ==
    {FuncV(c, 0, <<"int", "int">>, <<"int">>) : c \in {"add", "subFirst", "subSecond"}}
    \cup {FuncV("affine", 2, <<"int", "int">>, <<"int">>)}
    \cup {FuncV("const", BoolV(TRUE), <<"int", "bool">>, <<"bool">>),
          FuncV("const", BoolV(TRUE), <<"bool", "int">>, <<"bool">>),
          FuncV("const", IntV(1), <<"bool", "int">>, <<"int">>),
          FuncV("const", IntV(1), <<"int", "bool">>, <<"int">>),
          FuncV("const", IfaceV(NilIface), <<"int", "iface">>, <<"iface">>),
          FuncV("const", IfaceV(NilIface), <<"iface", "int">>, <<"iface">>)}

BadFuncs ==
    {FuncV("none", 0, <<>>, <<>>),
     FuncV("pair", 0, <<"int">>, <<"int", "int">>),
     FuncV("const", BoolV(FALSE), <<"int", "int">>, <<"bool">>),
     FuncV("const", IntV(0), <<"int", "int", "int">>, <<"int">>)}

\* comparators: orders on int, an inconsistent and a cyclic relation, the
\* constant answers, and every relation on bool and on the interface{} values
Lessers ==
    {FuncV(c, 0, <<"int", "int">>, <<"bool">>) :
        c \in {"less", "greater", "lessEq", "notEq", "beats"}}
    \cup {FuncV("const", BoolV(TRUE), <<"int", "int">>, <<"bool">>)}
    \cup UNION {{FuncV("inPairs", R, <<e, e>>, <<"bool">>) :
                    R \in SUBSET (ElemsOf(e) \X ElemsOf(e))} : e \in {"bool", "iface"}}

Funcs == Preds \cup Mappers \cup Folders \cup Lessers \cup BadFuncs

NonSlices == {IntV(3), NilIface}

NonFuncs == {IntV(3), NilIface}

SlcArgs == Slices \cup NonSlices

FnArgs == Funcs \cup NonFuncs

ZeroArgs == {IntV(0), IntV(1), IntV(6), BoolV(FALSE), NilIface}

\* the functions compared by TestFuncEqual: three literals, the closures of
\* one closure-making literal, method expressions, method values of two
\* receivers of each type, and method values taken through the interface
TestFuncs ==
    {FuncV("f1", 0, <<>>, <<>>),
     FuncV("f2", 0, <<>>, <<"bool">>),
     FuncV("f3", 0, <<"bool">>, <<"bool", "error">>),
     FuncV("f4", 0, <<"int">>, <<"func">>)}
    \cup {FuncV("f4.func1", IntV(n), <<>>, <<"int">>) : n \in {1, 2}}
    \cup {FuncV(m, 0, <<"FuncEqualTestType1">>, <<>>) :
             m \in {"FuncEqualTestType1.Test1", "FuncEqualTestType1.Test2"}}
    \cup {FuncV("FuncEqualTestType1.Test1-fm", r, <<>>, <<>>) : r \in {"t1", "t2"}}
    \cup {FuncV("FuncEqualTestType2.Test1-fm", r, <<>>, <<>>) : r \in {"t3", "t4"}}
    \cup {FuncV("FuncEqualTestInterface.Test1-fm", r, <<>>, <<>>) : r \in {"t1", "t2", "t3"}}

FuncEqualArgs == Funcs \cup TestFuncs \cup NonFuncs

FloatSlices == {SliceV("float64", items) : items \in SeqsOf({FloatV(h) : h \in Ints})}

ConvertSlcArgs == Slices \cup FloatSlices \cup NonSlices

TargetTypes == {"int", "int64", "float64", "string", "bool", "iface"}

\* example values (no value has the dynamic type interface{}) and nil
ExampleArgs ==
    {IntV(0), Int64V(0), FloatV(0), StringV(<<>>), BoolV(FALSE), NilIface}

\* type descriptors and the nil reflect.Type
TypeArgs == {TypeV(typ) : typ \in TargetTypes} \cup {NilIface}

----------------------------------------------------------------------------
\* The state machine: a caller makes one call with the arguments it chose;
\* slc, zero and fn record the arguments passed (zero is nil for the
\* operations that take none), ret, err and calls the outcome.

Init ==
    /\ pc = "ready"
    /\ op = "none"
    /\ slc = NilIface
    /\ fn = NilIface
    /\ zero = NilIface
    /\ fn2 = NilIface
    /\ target = NilIface
    /\ ret = NilIface
    /\ err = "none"
    /\ calls = <<>>

Finish(name, s, z, f, r) ==
    /\ pc' = "done"
    /\ op' = name
    /\ slc' = s
    /\ zero' = z
    /\ fn' = f
    /\ fn2' = NilIface
    /\ target' = NilIface
    /\ ret' = r.ret
    /\ err' = r.err
    /\ calls' = r.calls

\* a call of FuncEqual: fn and fn2 record f1 and f2
FinishFuncEqual(f1, f2, r) ==
    /\ pc' = "done"
    /\ op' = "FuncEqual"
    /\ slc' = NilIface
    /\ zero' = NilIface
    /\ fn' = f1
    /\ fn2' = f2
    /\ target' = NilIface
    /\ ret' = r.ret
    /\ err' = r.err
    /\ calls' = r.calls

\* a call of ConvertSlice or ConvertSliceType: target records the example
\* value, resp. the reflect.Type
FinishConvert(name, s, tg, r) ==
    /\ pc' = "done"
    /\ op' = name
    /\ slc' = s
    /\ zero' = NilIface
    /\ fn' = NilIface
    /\ fn2' = NilIface
    /\ target' = tg
    /\ ret' = r.ret
    /\ err' = r.err
    /\ calls' = r.calls

CallMap ==
    /\ pc = "ready"
    /\ \E s \in SlcArgs, f \in FnArgs :
          Finish("Map", s, NilIface, f, Map(s, f))

CallFilter ==
    /\ pc = "ready"
    /\ \E s \in SlcArgs, f \in FnArgs :
          Finish("Filter", s, NilIface, f, Filter(s, f))

CallReject ==
    /\ pc = "ready"
    /\ \E s \in SlcArgs, f \in FnArgs :
          Finish("Reject", s, NilIface, f, Reject(s, f))

CallFoldr ==
    /\ pc = "ready"
    /\ \E s \in SlcArgs, z \in ZeroArgs, f \in FnArgs :
          Finish("Foldr", s, z, f, Foldr(s, z, f))

CallFoldl ==
    /\ pc = "ready"
    /\ \E s \in SlcArgs, z \in ZeroArgs, f \in FnArgs :
          Finish("Foldl", s, z, f, Foldl(s, z, f))

CallFind ==
    /\ pc = "ready"
    /\ \E s \in SlcArgs, f \in FnArgs :
          Finish("Find", s, NilIface, f, Find(s, f))

CallFindIndex ==
    /\ pc = "ready"
    /\ \E s \in SlcArgs, f \in FnArgs :
          Finish("FindIndex", s, NilIface, f, FindIndex(s, f))

CallSome ==
    /\ pc = "ready"
    /\ \E s \in SlcArgs, f \in FnArgs :
          Finish("Some", s, NilIface, f, Some(s, f))

CallEvery ==
    /\ pc = "ready"
    /\ \E s \in SlcArgs, f \in FnArgs :
          Finish("Every", s, NilIface, f, Every(s, f))

CallCount ==
    /\ pc = "ready"
    /\ \E s \in SlcArgs, f \in FnArgs :
          Finish("Count", s, NilIface, f, Count(s, f))

CallMax ==
    /\ pc = "ready"
    /\ \E s \in SlcArgs, f \in FnArgs :
          Finish("Max", s, NilIface, f, Max(s, f))

CallMin ==
    /\ pc = "ready"
    /\ \E s \in SlcArgs, f \in FnArgs :
          Finish("Min", s, NilIface, f, Min(s, f))

CallFuncEqual ==
    /\ pc = "ready"
    /\ \E f1 \in FuncEqualArgs, f2 \in FuncEqualArgs :
          FinishFuncEqual(f1, f2, FuncEqual(f1, f2))

CallConvertSlice ==
    /\ pc = "ready"
    /\ \E s \in ConvertSlcArgs, example \in ExampleArgs :
          FinishConvert("ConvertSlice", s, example, ConvertSlice(s, example))

CallConvertSliceType ==
    /\ pc = "ready"
    /\ \E s \in ConvertSlcArgs, typ \in TypeArgs :
          FinishConvert("ConvertSliceType", s, typ, ConvertSliceType(s, typ))

Next ==
    \/ CallMap
    \/ CallFilter
    \/ CallReject
    \/ CallFoldr
    \/ CallFoldl
    \/ CallFind
    \/ CallFindIndex
    \/ CallSome
    \/ CallEvery
    \/ CallCount
    \/ CallMax
    \/ CallMin
    \/ CallFuncEqual
    \/ CallConvertSlice
    \/ CallConvertSliceType

Spec == Init /\ [][Next]_vars

\* The callers of one family of operations

NextSearch ==
    \/ CallFind
    \/ CallFindIndex
    \/ CallSome
    \/ CallEvery

SpecSearch == Init /\ [][NextSearch]_vars

NextFold ==
    \/ CallFoldr
    \/ CallFoldl

SpecFold == Init /\ [][NextFold]_vars

NextMaxMin ==
    \/ CallMax
    \/ CallMin

SpecMaxMin == Init /\ [][NextMaxMin]_vars

NextConvert ==
    \/ CallConvertSlice
    \/ CallConvertSliceType

SpecConvert == Init /\ [][NextConvert]_vars

----------------------------------------------------------------------------
\* Properties

Done(name) == pc = "done" /\ op = name

\* pred applied to the element x, as a truth value
Holds(f, x) == Call(f, <<x>>)[1].v

\* the call passed a slice and a func(T) bool for the slice's element type T
ValidPredArgs ==
    /\ slc.t = "slice"
    /\ fn.t = "func"
    /\ fn.in = <<slc.elem>>
    /\ fn.out = <<"bool">>

\* the number of indices 1..k of the sequence s whose element satisfies f
CountUpTo(f, s, k) == Cardinality({j \in 1..k : Holds(f, s[j])})

ValidMapArgs ==
    /\ slc.t = "slice"
    /\ fn.t = "func"
    /\ Len(fn.in) = 1
    /\ Len(fn.out) = 1
    /\ fn.in[1] = slc.elem

\* C1: Map with a one-parameter, one-result callback on the element type
\* returns a new sequence of the same length whose i-th element is
\* f(seq[i]); an empty sequence gives an empty result.
C1_MapElementwise ==
    (Done("Map") /\ ValidMapArgs) =>
        /\ err = "none"
        /\ ret.t = "slice"
        /\ Len(ret.items) = Len(slc.items)
        /\ \A i \in 1..Len(slc.items) :
               ret.items[i] = Call(fn, <<slc.items[i]>>)[1]

C1_Witness ==
    /\ Done("Map")
    /\ ValidMapArgs
    /\ slc.items = <<IntV(1), IntV(2), IntV(3)>>
    /\ ret.t = "slice"
    /\ ret.items = <<IntV(1), IntV(4), IntV(9)>>

\* C2: Filter with a valid predicate returns exactly the subsequence of the
\* elements satisfying pred, in their original order, hence no longer than
\* the input; an always-true predicate gives back the elements of seq and an
\* always-false predicate the empty sequence.
C2_FilterSubsequence ==
    (Done("Filter") /\ ValidPredArgs) =>
        /\ err = "none"
        /\ ret.t = "slice"
        /\ ret.items = SelectSeq(slc.items, LAMBDA x : Holds(fn, x))
        /\ Len(ret.items) <= Len(slc.items)
        /\ (\A i \in 1..Len(slc.items) : Holds(fn, slc.items[i]))
               => ret.items = slc.items
        /\ (\A i \in 1..Len(slc.items) : ~Holds(fn, slc.items[i]))
               => ret.items = <<>>

C2_Witness ==
    /\ Done("Filter")
    /\ ValidPredArgs
    /\ Len(slc.items) = 3
    /\ Holds(fn, slc.items[1])
    /\ ~Holds(fn, slc.items[2])
    /\ Holds(fn, slc.items[3])
    /\ slc.items[1] # slc.items[3]
    /\ ret.items = <<slc.items[1], slc.items[3]>>

\* C3: Reject is the exact complement of Filter: every index of s gives its
\* element to exactly one of Filter(s, p) and Reject(s, p), at the position
\* its rank among the kept (resp. rejected) indices dictates, and the two
\* lengths add up to len(s).
C3_RejectComplement ==
    (Done("Reject") /\ ValidPredArgs) =>
        LET s == slc.items
            kept == Filter(slc, fn).ret.items
            rejected == ret.items
        IN /\ err = "none"
           /\ Len(kept) + Len(rejected) = Len(s)
           /\ \A i \in 1..Len(s) :
                  IF Holds(fn, s[i])
                  THEN kept[CountUpTo(fn, s, i)] = s[i]
                  ELSE rejected[i - CountUpTo(fn, s, i)] = s[i]

C3_Witness ==
    /\ Done("Reject")
    /\ ValidPredArgs
    /\ Len(slc.items) = 3
    /\ Len(ret.items) = 2
    /\ Len(Filter(slc, fn).ret.items) = 1
    /\ ret.items[1] # ret.items[2]

\* the call passed a slice, a callback func(T, U) U on the slice's element
\* type T, and a zero value of type U
ValidFoldrArgs ==
    /\ slc.t = "slice"
    /\ fn.t = "func"
    /\ Len(fn.in) = 2
    /\ fn.in[1] = slc.elem
    /\ fn.out = <<fn.in[2]>>
    /\ zero.t = fn.in[2]

\* the call passed a slice, a callback func(U, T) U and a zero value of type U
ValidFoldlArgs ==
    /\ slc.t = "slice"
    /\ fn.t = "func"
    /\ Len(fn.in) = 2
    /\ fn.in[2] = slc.elem
    /\ fn.out = <<fn.in[1]>>
    /\ zero.t = fn.in[1]

\* acc_i of Foldr: acc_0 = z, acc_i = f(s[i], acc_(i-1)), s counted from 1
RECURSIVE FoldrAcc(_, _, _, _)
FoldrAcc(f, s, z, i) ==
    IF i = 0 THEN z ELSE Call(f, <<s[i], FoldrAcc(f, s, z, i - 1)>>)[1]

\* acc_i of Foldl: acc_0 = z, acc_i = f(acc_(i-1), s[n-i+1]), s counted from 1
RECURSIVE FoldlAcc(_, _, _, _)
FoldlAcc(f, s, z, i) ==
    IF i = 0 THEN z
    ELSE Call(f, <<FoldlAcc(f, s, z, i - 1), s[Len(s) - i + 1]>>)[1]

\* C4: Foldr accumulates left to right: acc_0 = zero, acc_i =
\* f(seq[i-1], acc_(i-1)), element first and accumulator second, and the
\* result is acc_n.
C4_FoldrLeftToRight ==
    (Done("Foldr") /\ ValidFoldrArgs) =>
        LET s == slc.items
        IN /\ err = "none"
           /\ ret = FoldrAcc(fn, s, zero, Len(s))
           /\ Len(calls) = Len(s)
           /\ \A i \in 1..Len(s) :
                  calls[i] = <<s[i], FoldrAcc(fn, s, zero, i - 1)>>

\* foldr([1,2,3], 1, +) == 7
C4_Witness ==
    /\ Done("Foldr")
    /\ ValidFoldrArgs
    /\ slc.items = <<IntV(1), IntV(2), IntV(3)>>
    /\ zero = IntV(1)
    /\ fn.code = "add"
    /\ ret = IntV(7)

\* C5: Foldl traverses from the last element to the first: acc_0 = zero,
\* acc_i = f(acc_(i-1), seq[n-i]), accumulator first and element second, and
\* the result is acc_n.
C5_FoldlRightToLeft ==
    (Done("Foldl") /\ ValidFoldlArgs) =>
        LET s == slc.items
        IN /\ err = "none"
           /\ ret = FoldlAcc(fn, s, zero, Len(s))
           /\ Len(calls) = Len(s)
           /\ \A i \in 1..Len(s) :
                  calls[i] = <<FoldlAcc(fn, s, zero, i - 1), s[Len(s) - i + 1]>>

\* foldl([3,2,1], 6, -) == 0
C5_Witness ==
    /\ Done("Foldl")
    /\ ValidFoldlArgs
    /\ slc.items = <<IntV(3), IntV(2), IntV(1)>>
    /\ zero = IntV(6)
    /\ fn.code = "subSecond"
    /\ ret = IntV(0)

\* C6: on an empty sequence, with a valid callback and a zero value of its
\* accumulator type, Foldr and Foldl return the zero value unchanged and
\* never invoke the callback.
C6_FoldEmptyReturnsZero ==
    /\ (Done("Foldr") /\ ValidFoldrArgs /\ slc.items = <<>>) =>
           (err = "none" /\ ret = zero /\ calls = <<>>)
    /\ (Done("Foldl") /\ ValidFoldlArgs /\ slc.items = <<>>) =>
           (err = "none" /\ ret = zero /\ calls = <<>>)

\* an empty fold whose callback would have produced something else than zero
C6_Witness ==
    /\ Done("Foldl")
    /\ ValidFoldlArgs
    /\ slc.items = <<>>
    /\ zero = IntV(6)
    /\ fn.code = "const"
    /\ ret = IntV(6)

\* the indices (from 1) of the elements of s satisfying f
Matches(f, s) == {i \in 1..Len(s) : Holds(f, s[i])}

\* the smallest member of a non-empty set of integers
Least(S) == CHOOSE i \in S : \A j \in S : i <= j

\* C7: Find returns the element at the smallest index satisfying pred, and
\* the nil "no result" value when no element does (also for an empty seq).
C7_FindFirst ==
    (Done("Find") /\ ValidPredArgs) =>
        LET s == slc.items
        IN /\ err = "none"
           /\ IF Matches(fn, s) # {}
              THEN ret = Interface(s[Least(Matches(fn, s))])
              ELSE ret = NilIface

C7_Witness ==
    /\ Done("Find")
    /\ ValidPredArgs
    /\ Cardinality(Matches(fn, slc.items)) = 2
    /\ 1 \notin Matches(fn, slc.items)
    /\ slc.items[2] # slc.items[3]
    /\ ret = slc.items[2]

\* C8: FindIndex returns the smallest index (from 0) satisfying pred, -1
\* exactly when no element does, and always a value in -1..len(seq)-1.
C8_FindIndexFirst ==
    (Done("FindIndex") /\ ValidPredArgs) =>
        LET s == slc.items
        IN /\ err = "none"
           /\ ret.t = "int"
           /\ ret.v \in -1..(Len(s) - 1)
           /\ (ret.v = -1) <=> (Matches(fn, s) = {})
           /\ Matches(fn, s) # {} => ret.v = Least(Matches(fn, s)) - 1

C8_Witness ==
    /\ Done("FindIndex")
    /\ ValidPredArgs
    /\ slc.items = <<IntV(1), IntV(2), IntV(3)>>
    /\ Matches(fn, slc.items) = {2}
    /\ ret = IntV(1)

\* C9: Find returns the nil "no result" value only if no element satisfies
\* the predicate, also when the elements may themselves be nil or zero.
C9_SentinelOnlyWhenNoMatch ==
    (Done("Find") /\ ValidPredArgs /\ err = "none" /\ ret = NilIface) =>
        Matches(fn, slc.items) = {}

\* C10: Some returns true iff some element satisfies pred (false for the
\* empty sequence) and short-circuits: pred is invoked on the elements in
\* index order up to and including the first one it accepts, and on none
\* after it.
C10_SomeShortCircuit ==
    (Done("Some") /\ ValidPredArgs) =>
        LET s == slc.items
            m == Matches(fn, s)
            n == IF m = {} THEN Len(s) ELSE Least(m)
        IN /\ err = "none"
           /\ ret = BoolV(m # {})
           /\ s = <<>> => ret = BoolV(FALSE)
           /\ calls = [k \in 1..n |-> <<s[k]>>]
           /\ \A k \in 1..(Len(calls) - 1) : ~Holds(fn, calls[k][1])

C10_Witness ==
    /\ Done("Some")
    /\ ValidPredArgs
    /\ Len(slc.items) = 3
    /\ Matches(fn, slc.items) = {2, 3}
    /\ ret = BoolV(TRUE)
    /\ Len(calls) = 2

\* C11: Every returns true iff all elements satisfy pred (true for the empty
\* sequence) and short-circuits: pred is invoked on the elements in index
\* order up to and including the first one it refuses, and on none after it.
C11_EveryShortCircuit ==
    (Done("Every") /\ ValidPredArgs) =>
        LET s == slc.items
            m == {i \in 1..Len(s) : ~Holds(fn, s[i])}
            n == IF m = {} THEN Len(s) ELSE Least(m)
        IN /\ err = "none"
           /\ ret = BoolV(m = {})
           /\ s = <<>> => ret = BoolV(TRUE)
           /\ calls = [k \in 1..n |-> <<s[k]>>]
           /\ \A k \in 1..(Len(calls) - 1) : Holds(fn, calls[k][1])

C11_Witness ==
    /\ Done("Every")
    /\ ValidPredArgs
    /\ Len(slc.items) = 3
    /\ Matches(fn, slc.items) = {1}
    /\ ret = BoolV(FALSE)
    /\ Len(calls) = 2

\* C12: Count returns the number of indices whose element satisfies pred; the
\* result lies in 0..len(seq) and equals len(Filter(seq, pred)).
C12_CountMatches ==
    (Done("Count") /\ ValidPredArgs) =>
        /\ err = "none"
        /\ ret.t = "int"
        /\ ret.v = Cardinality(Matches(fn, slc.items))
        /\ ret.v \in 0..Len(slc.items)
        /\ ret.v = Len(Filter(slc, fn).ret.items)

C12_Witness ==
    /\ Done("Count")
    /\ ValidPredArgs
    /\ Len(slc.items) = 3
    /\ Matches(fn, slc.items) = {1, 3}
    /\ slc.items[1] = slc.items[3]
    /\ ret = IntV(2)

\* the call passed a slice and a func(T, T) bool for its element type T
ValidLessArgs ==
    /\ slc.t = "slice"
    /\ fn.t = "func"
    /\ fn.in = <<slc.elem, slc.elem>>
    /\ fn.out = <<"bool">>

\* the best element of Max after the candidates s[2..k]: best starts as s[1]
\* and is replaced by the candidate c exactly when less(best, c)
RECURSIVE MaxBest(_, _, _)
MaxBest(f, s, k) ==
    IF k = 1 THEN s[1]
    ELSE LET best == MaxBest(f, s, k - 1)
         IN IF Call(f, <<best, s[k]>>)[1].v THEN s[k] ELSE best

\* the best element of Min: replaced by the candidate c exactly when
\* less(c, best)
RECURSIVE MinBest(_, _, _)
MinBest(f, s, k) ==
    IF k = 1 THEN s[1]
    ELSE LET best == MinBest(f, s, k - 1)
         IN IF Call(f, <<s[k], best>>)[1].v THEN s[k] ELSE best

\* less answers true on every pair of elements of s
AlwaysTrueOn(f, s) ==
    \A i, j \in 1..Len(s) : Call(f, <<s[i], s[j]>>)[1].v

\* C13: on a non-empty sequence Max is the left-to-right scan that starts
\* with best = seq[0] and replaces best by the candidate c exactly when
\* less(best, c); an always-true less yields the last element; on an empty
\* sequence Max returns the nil "no result" value without invoking less.
C13_MaxScan ==
    (Done("Max") /\ ValidLessArgs) =>
        LET s == slc.items
        IN /\ err = "none"
           /\ s = <<>> => (ret = NilIface /\ calls = <<>>)
           /\ s # <<>> =>
                 /\ ret = Interface(MaxBest(fn, s, Len(s)))
                 /\ calls = [k \in 1..(Len(s) - 1) |->
                                <<MaxBest(fn, s, k), s[k + 1]>>]
                 /\ AlwaysTrueOn(fn, s) => ret = Interface(s[Len(s)])

\* max([1,2,3], <) == 3
C13_Witness ==
    /\ Done("Max")
    /\ ValidLessArgs
    /\ slc.items = <<IntV(1), IntV(2), IntV(3)>>
    /\ fn.code = "less"
    /\ ret = IntV(3)

\* C14: on a non-empty sequence Min is the left-to-right scan that starts
\* with best = seq[0] and replaces best by the candidate c exactly when
\* less(c, best); an always-true less yields the last element and a
\* one-element sequence its element; on an empty sequence Min returns the
\* nil "no result" value without invoking less.
C14_MinScan ==
    (Done("Min") /\ ValidLessArgs) =>
        LET s == slc.items
        IN /\ err = "none"
           /\ s = <<>> => (ret = NilIface /\ calls = <<>>)
           /\ s # <<>> =>
                 /\ ret = Interface(MinBest(fn, s, Len(s)))
                 /\ calls = [k \in 1..(Len(s) - 1) |->
                                <<s[k + 1], MinBest(fn, s, k)>>]
                 /\ AlwaysTrueOn(fn, s) => ret = Interface(s[Len(s)])
                 /\ Len(s) = 1 => (ret = Interface(s[1]) /\ calls = <<>>)

\* min([3,1,2], <) == 1
C14_Witness ==
    /\ Done("Min")
    /\ ValidLessArgs
    /\ slc.items = <<IntV(3), IntV(1), IntV(2)>>
    /\ fn.code = "less"
    /\ ret = IntV(1)

\* the signature the operation name requires of a callback f for a slice
\* with element type e
Satisfies(name, f, e) ==
    CASE name = "Map" -> Len(f.in) = 1 /\ Len(f.out) = 1 /\ f.in[1] = e
      [] name \in {"Filter", "Reject", "Find", "FindIndex", "Some", "Every", "Count"} ->
             f.in = <<e>> /\ f.out = <<"bool">>
      [] name = "Foldr" ->
             Len(f.in) = 2 /\ Len(f.out) = 1 /\ f.in[1] = e /\ f.in[2] = f.out[1]
      [] name = "Foldl" ->
             Len(f.in) = 2 /\ Len(f.out) = 1 /\ f.in[2] = e /\ f.in[1] = f.out[1]
      [] name \in {"Max", "Min"} -> f.in = <<e, e>> /\ f.out = <<"bool">>
      [] OTHER -> TRUE

CallbackOps ==
    {"Map", "Filter", "Reject", "Foldr", "Foldl", "Find", "FindIndex", "Some",
     "Every", "Count", "Max", "Min"}

\* C15: every callback-taking operation, given a slice and a function whose
\* arity, parameter types or return type do not satisfy its required
\* signature, fails with SignatureMismatch and never invokes the callback,
\* for non-empty as well as empty sequences.
C15_SignatureMismatch ==
    (/\ pc = "done"
     /\ op \in CallbackOps
     /\ slc.t = "slice"
     /\ fn.t = "func"
     /\ ~Satisfies(op, fn, slc.elem)) =>
        (err = "SignatureMismatch" /\ calls = <<>> /\ ret = NilIface)

\* a two-result function passed to Map with a non-empty sequence
C15_Witness ==
    /\ Done("Map")
    /\ slc.t = "slice"
    /\ Len(slc.items) = 3
    /\ fn.t = "func"
    /\ fn.in = <<slc.elem>>
    /\ Len(fn.out) = 2
    /\ err = "SignatureMismatch"

----------------------------------------------------------------------------
\* FuncEqual

\* f and g name the same underlying code: the same literal or method, with
\* whatever captured variables or receiver
SameCode(f, g) == f.code = g.code /\ f.in = g.in /\ f.out = g.out

\* C17: for two callable arguments FuncEqual returns true exactly when they
\* are the same underlying code: a function equals itself, two closures of
\* one closure-making function are equal whatever they captured, two method
\* values taken through an interface are equal even when the concrete
\* receiver types differ, and distinct functions or methods are unequal.
C17_FuncEqualSameCode ==
    (Done("FuncEqual") /\ fn.t = "func" /\ fn2.t = "func") =>
        /\ err = "none"
        /\ ret = BoolV(SameCode(fn, fn2))
        /\ (fn = fn2 => ret = BoolV(TRUE))
        /\ (fn.code = "f4.func1" /\ fn2.code = "f4.func1" => ret = BoolV(TRUE))
        /\ (/\ fn.code = "FuncEqualTestInterface.Test1-fm"
            /\ fn2.code = "FuncEqualTestInterface.Test1-fm"
            => ret = BoolV(TRUE))
        /\ (fn.code # fn2.code => ret = BoolV(FALSE))

\* two closures of one literal that captured different values compare equal
C17_Witness ==
    /\ Done("FuncEqual")
    /\ fn.t = "func" /\ fn2.t = "func"
    /\ fn.code = "f4.func1" /\ fn2.code = "f4.func1"
    /\ fn.env # fn2.env
    /\ ret = BoolV(TRUE)

\* C18: FuncEqual fails with NotACallable whenever at least one argument is
\* not a callable, an absent (nil) argument included, whatever the other
\* argument is.
C18_FuncEqualNotACallable ==
    (Done("FuncEqual") /\ (fn.t # "func" \/ fn2.t # "func")) =>
        err = "NotACallable"

----------------------------------------------------------------------------
\* ConvertSlice and ConvertSliceType

DoneConvert == Done("ConvertSlice") \/ Done("ConvertSliceType")

\* the target element type of the finished call, "nil" when there is none
TargetType ==
    IF target.t = "nil" THEN "nil"
    ELSE IF op = "ConvertSlice" THEN target.t ELSE target.v

\* the value of x in the type typ: integers widen, an integer becomes the
\* float of the same value and the one-code-point string, a float is
\* truncated, and anything is wrapped by the opaque type
Converted(x, typ) ==
    IF x.t = typ THEN x
    ELSE IF typ = "iface" THEN [t |-> "iface", v |-> x]
    ELSE IF typ = "float64" THEN [t |-> typ, v |-> x.v + x.v]
    ELSE IF typ = "string" THEN [t |-> typ, v |-> <<x.v>>]
    ELSE IF x.t = "float64"
    THEN [t |-> typ, v |-> CHOOSE n \in 0..x.v : 2 * n <= x.v /\ x.v < 2 * n + 2]
    ELSE [t |-> typ, v |-> x.v]

\* C19: given a slice and a target type, ConvertSlice and ConvertSliceType
\* return a new slice of the target type, of the same length, whose i-th
\* element is the i-th input element converted; they fail with
\* NotConvertible when the element type is not convertible to the target.
C19_ConvertSliceElementwise ==
    (DoneConvert /\ Kind(slc) = "slice" /\ TargetType # "nil") =>
        IF ConvertibleTo(slc.elem, TargetType)
        THEN /\ err = "none"
             /\ Kind(ret) = "slice"
             /\ ret.elem = TargetType
             /\ SliceLen(ret) = SliceLen(slc)
             /\ \A i \in 1..SliceLen(slc) :
                   ret.items[i] = Converted(slc.items[i], TargetType)
        ELSE err = "NotConvertible"

\* C20: for an empty input slice the call fails with NotConvertible exactly
\* when the element type is not convertible to the target, and otherwise
\* returns an empty slice of the target type.
C20_ConvertEmptySlice ==
    (/\ DoneConvert /\ Kind(slc) = "slice" /\ TargetType # "nil"
     /\ SliceLen(slc) = 0) =>
        /\ err = "NotConvertible" <=> ~ConvertibleTo(slc.elem, TargetType)
        /\ ConvertibleTo(slc.elem, TargetType) =>
              /\ err = "none"
              /\ ret = MakeSlice(TargetType, 0)

----------------------------------------------------------------------------
\* Failures

\* the failure kinds of the taxonomy
Taxonomy ==
    {"NotASequence", "NotACallable", "SignatureMismatch", "ZeroTypeMismatch",
     "NotConvertible"}

\* C21: for every combination of inputs, nil values included, each operation
\* either returns a result or fails with one of the typed failures of the
\* taxonomy; no other abort occurs.
C21_TypedFailuresOnly ==
    pc = "done" => err \in {"none"} \cup Taxonomy

\* C22: no operation returns a partial result: a failing call returns
\* nothing to the caller, and a returned result is complete: every position
\* of the result of Map holds the callback's value for that element and
\* every position of the result of a conversion the converted element.
C22_NoPartialResult ==
    pc = "done" =>
        /\ err # "none" => ret = NilIface
        /\ (Done("Map") /\ err = "none") =>
              /\ SliceLen(ret) = SliceLen(slc)
              /\ \A i \in 1..SliceLen(slc) :
                    ret.items[i] = Call(fn, <<slc.items[i]>>)[1]
        /\ (DoneConvert /\ err = "none") =>
              /\ SliceLen(ret) = SliceLen(slc)
              /\ \A i \in 1..SliceLen(slc) :
                    ret.items[i] = Converted(slc.items[i], TargetType)

\* a conversion that fails on a sequence of three elements returns nothing
C22_Witness ==
    /\ Done("ConvertSlice")
    /\ Kind(slc) = "slice"
    /\ SliceLen(slc) = 3
    /\ slc.elem = "bool"
    /\ TargetType = "int"
    /\ err = "NotConvertible"
    /\ ret = NilIface

----------------------------------------------------------------------------
\* Caller-owned values

SliceOps ==
    {"Map", "Filter", "Reject", "Foldr", "Foldl", "Find", "FindIndex", "Some",
     "Every", "Count", "Max", "Min", "ConvertSlice", "ConvertSliceType"}

\* The elements the caller finds in its slice after the call.  An operation
\* writes only through its result slice (ret.Index(i).Set, reflect.Append),
\* so the caller's array has changed exactly when the result is a view of it.
InputAfter ==
    IF Kind(ret) = "slice" /\ ret.arr = slc.arr THEN ret.items ELSE slc.items

\* C23: no operation mutates a caller-supplied value: after any call,
\* successful or failing, the input sequence has the same length and the
\* same elements in the same order as before, and a returned result sequence
\* is freshly allocated, so that later changes to it do not change the
\* input.
C23_InputUnchanged ==
    (pc = "done" /\ op \in SliceOps /\ Kind(slc) = "slice") =>
        /\ Len(InputAfter) = Len(slc.items)
        /\ \A i \in 1..Len(slc.items) : InputAfter[i] = slc.items[i]
        /\ Kind(ret) = "slice" => (ret.arr = "fresh" /\ ret.arr # slc.arr)

\* a Map whose result differs from its input at every position
C23_Witness ==
    /\ Done("Map")
    /\ ValidMapArgs
    /\ err = "none"
    /\ SliceLen(slc) = 3
    /\ ret.elem = slc.elem
    /\ \A i \in 1..3 : ret.items[i] # slc.items[i]
    /\ InputAfter = slc.items

----------------------------------------------------------------------------
\* Result shapes

\* x, as returned in an interface{}, is a value of the type typ: any value,
\* nil included, is a value of the interface type
HasType(x, typ) == typ = "iface" \/ x.t = typ

\* x is a sequence with element type typ
IsSliceOf(x, typ) ==
    /\ Kind(x) = "slice"
    /\ x.elem = typ
    /\ \A i \in 1..SliceLen(x) : x.items[i].t = typ

----------------------------------------------------------------------------
\* Order of the checks

FoldOps == {"Foldr", "Foldl"}

\* C25: the checks run in a fixed order and the first failing one decides
\* the failure: sequence kind, then callable kind, then the signature, then
\* (folds only, for a zero value that has a type) the zero type.  A
\* non-sequence is reported whatever the callback is, and a fold callback
\* whose accumulator parameter and return types differ is a
\* SignatureMismatch even if the type of zero disagrees as well.
C25_CheckOrder ==
    (pc = "done" /\ op \in CallbackOps) =>
        IF Kind(slc) # "slice" THEN err = "NotASequence"
        ELSE IF Kind(fn) # "func" THEN err = "NotACallable"
        ELSE IF ~Satisfies(op, fn, slc.elem) THEN err = "SignatureMismatch"
        ELSE IF op \in FoldOps /\ zero.t # "nil" /\ zero.t # fn.out[1]
        THEN err = "ZeroTypeMismatch"
        ELSE (op \notin FoldOps \/ zero.t = fn.out[1]) => err = "none"

\* a fold whose callback mismatches and whose zero disagrees with the
\* callback's return type as well
C25_Witness ==
    /\ Done("Foldr")
    /\ Kind(slc) = "slice"
    /\ Kind(fn) = "func"
    /\ Len(fn.in) = 2 /\ Len(fn.out) = 1
    /\ fn.in[1] = slc.elem
    /\ fn.in[2] # fn.out[1]
    /\ zero.t # "nil" /\ zero.t # fn.out[1]
    /\ err = "SignatureMismatch"

----------------------------------------------------------------------------
\* Callback invocations

\* the call passed arguments that satisfy every check of the operation
ValidArgs ==
    /\ Kind(slc) = "slice"
    /\ Kind(fn) = "func"
    /\ Satisfies(op, fn, slc.elem)
    /\ op \in FoldOps => zero.t = fn.out[1]

\* C26: every operation ends after a bounded number of callback invocations,
\* one per visited element and in a fixed order: Map, Filter, Reject, Count
\* and Foldr make exactly len(seq) calls in ascending index order, Foldl
\* exactly len(seq) in descending order, Max and Min exactly len(seq)-1 on a
\* non-empty sequence (the candidates 1..len-1 in ascending order), and
\* Find, FindIndex, Some and Every at most len(seq) in ascending order,
\* stopping at the deciding element.
C26_CallbackInvocations ==
    (pc = "done" /\ op \in CallbackOps /\ ValidArgs) =>
        LET s == slc.items
            n == Len(s)
            m == Len(calls)
            decides(x) == IF op = "Every" THEN ~Holds(fn, x) ELSE Holds(fn, x)
        IN /\ err = "none"
           /\ m <= n
           /\ CASE op \in {"Map", "Filter", "Reject", "Count", "Foldr"} ->
                      m = n /\ \A i \in 1..n : calls[i][1] = s[i]
                [] op = "Foldl" ->
                      m = n /\ \A i \in 1..n : calls[i][2] = s[n - i + 1]
                [] op = "Max" ->
                      n > 0 => (m = n - 1 /\ \A i \in 1..m : calls[i][2] = s[i + 1])
                [] op = "Min" ->
                      n > 0 => (m = n - 1 /\ \A i \in 1..m : calls[i][1] = s[i + 1])
                [] OTHER ->
                      /\ \A i \in 1..m : calls[i] = <<s[i]>>
                      /\ \A i \in 1..(m - 1) : ~decides(s[i])
                      /\ m < n => decides(s[m])
                      /\ (\E i \in 1..n : decides(s[i])) => (m > 0 /\ decides(s[m]))

\* Min over three distinct elements compares the second and the third
C26_Witness ==
    /\ Done("Min")
    /\ ValidArgs
    /\ SliceLen(slc) = 3
    /\ slc.items[2] # slc.items[3]
    /\ Len(calls) = 2
    /\ calls[1][1] = slc.items[2]
    /\ calls[2][1] = slc.items[3]

----------------------------------------------------------------------------
\* ConvertSlice and ConvertSliceType agree

\* the outcomes a and b are the same result, or the same kind of failure
SameOutcome(a, b) == a.ret = b.ret /\ a.err = b.err

\* C27: ConvertSlice(seq, example) and ConvertSliceType(seq, type of
\* example) are equivalent: they return equal sequences or fail with the
\* same kind of failure (NotASequence when seq is no sequence,
\* NotConvertible when the conversion is illegal), and the failures differ
\* only in the operation they name.
C27_ConvertSliceEquivalence ==
    /\ Done("ConvertSlice") =>
          LET a == ConvertSlice(slc, target)
              b == ConvertSliceType(slc, TypeOf(target))
          IN /\ ret = a.ret /\ err = a.err
             /\ SameOutcome(a, b)
             /\ err # "none" =>
                   (a.name = "ConvertSlice" /\ b.name = "ConvertSliceType")
             /\ Kind(slc) # "slice" => err = "NotASequence"
             /\ (Kind(slc) = "slice" /\ SliceLen(slc) > 0 /\ target.t # "nil"
                   /\ ~ConvertibleTo(slc.elem, target.t)) =>
                   err = "NotConvertible"
    /\ (Done("ConvertSliceType") /\ target.t = "type" /\ target.v # "iface") =>
          LET a == ConvertSlice(slc, ZeroOf(target.v))
              b == ConvertSliceType(slc, target)
          IN /\ ret = b.ret /\ err = b.err
             /\ SameOutcome(a, b)

\* both succeed with the converted sequence
C27_Witness ==
    /\ Done("ConvertSlice")
    /\ slc = SliceV("int", <<IntV(1), IntV(2), IntV(3)>>)
    /\ target = FloatV(0)
    /\ err = "none"
    /\ ret.items = <<FloatV(2), FloatV(4), FloatV(6)>>
    /\ ConvertSliceType(slc, TypeV("float64")).ret = ret

----------------------------------------------------------------------------
\* Find, FindIndex, Some and Every

\* the predicate "not pred": the closure over the complementary set, resp.
\* the constant predicate with the opposite answer
Negation(f) ==
    IF f.code = "inSet"
    THEN [f EXCEPT !.env = ElemsOf(f.in[1]) \ @]
    ELSE [f EXCEPT !.env = BoolV(~@.v)]

SearchOps == {"Find", "FindIndex", "Some", "Every"}

\* the operation named name applied to s and f
Apply(name, s, f) ==
    CASE name = "Find" -> Find(s, f)
      [] name = "FindIndex" -> FindIndex(s, f)
      [] name = "Some" -> Some(s, f)
      [] OTHER -> Every(s, f)

\* C28: Find, FindIndex, Some and Every agree on every sequence and valid
\* predicate: FindIndex(seq, pred) = i >= 0 implies Find(seq, pred) =
\* seq[i]; Some(seq, pred) is true iff FindIndex(seq, pred) # -1; and
\* Every(seq, pred) is true iff FindIndex(seq, not pred) = -1.
C28_SearchOpsAgree ==
    (pc = "done" /\ op \in SearchOps /\ ValidPredArgs) =>
        LET i == FindIndex(slc, fn).ret.v
            j == FindIndex(slc, Negation(fn)).ret.v
        IN /\ ret = Apply(op, slc, fn).ret
           /\ i >= 0 => Find(slc, fn).ret = Interface(Index(slc, i))
           /\ Some(slc, fn).ret = BoolV(i # -1)
           /\ Every(slc, fn).ret = BoolV(j = -1)
           /\ \A x \in ElemsOf(slc.elem) : Holds(Negation(fn), x) = ~Holds(fn, x)

\* Every is false and FindIndex of the negated predicate points at the
\* second element, Some is true and FindIndex points at the first
C28_Witness ==
    /\ Done("Every")
    /\ ValidPredArgs
    /\ SliceLen(slc) = 3
    /\ ret = BoolV(FALSE)
    /\ FindIndex(slc, Negation(fn)).ret = IntV(1)
    /\ FindIndex(slc, fn).ret = IntV(0)
    /\ Some(slc, fn).ret = BoolV(TRUE)

----------------------------------------------------------------------------
\* Max and Min under arbitrary and under total comparators

\* less(a, b) as a truth value
Less(f, a, b) == Call(f, <<a, b>>)[1].v

\* less is a strict total order on the set E of element values
StrictTotalOrder(f, E) ==
    /\ \A a \in E : ~Less(f, a, a)
    /\ \A a, b \in E : a # b => (Less(f, a, b) <=> ~Less(f, b, a))
    /\ \A a, b, d \in E : (Less(f, a, b) /\ Less(f, b, d)) => Less(f, a, d)

\* the lowest index of a maximal, resp. minimal, element of s
FirstMax(f, s) ==
    Least({k \in 1..Len(s) : \A j \in 1..Len(s) : ~Less(f, s[k], s[j])})

FirstMin(f, s) ==
    Least({k \in 1..Len(s) : \A j \in 1..Len(s) : ~Less(f, s[j], s[k])})

\* C29: for every non-empty sequence and every comparator, inconsistent and
\* non-transitive ones included, the result of Max and of Min is an element
\* of the sequence; when less is a strict total order on the element values,
\* Max returns the first-occurring maximal element and Min the
\* first-occurring minimal one.
C29_MaxMinElement ==
    (pc = "done" /\ op \in {"Max", "Min"} /\ ValidLessArgs /\ slc.items # <<>>) =>
        LET s == slc.items
        IN /\ err = "none"
           /\ \E k \in 1..Len(s) : ret = Interface(s[k])
           /\ StrictTotalOrder(fn, ElemsOf(slc.elem)) =>
                 IF op = "Max"
                 THEN ret = Interface(s[FirstMax(fn, s)])
                 ELSE ret = Interface(s[FirstMin(fn, s)])

\* the maximum occurs twice; the second occurrence does not replace the first
C29_Witness ==
    /\ Done("Max")
    /\ ValidLessArgs
    /\ fn.code = "less"
    /\ slc.items = <<IntV(3), IntV(1), IntV(3)>>
    /\ StrictTotalOrder(fn, ElemsOf(slc.elem))
    /\ ret = IntV(3)
    /\ calls = <<<<IntV(3), IntV(1)>>, <<IntV(3), IntV(3)>>>>

----------------------------------------------------------------------------
\* The zero type of a fold

\* C30: the zero-type check of Foldr and Foldl requires type identity, not
\* assignability: a fold with a structurally valid callback proceeds only
\* when the type of the zero value is identical to the callback's return
\* type, so a callback whose accumulator type is interface{} is rejected
\* with ZeroTypeMismatch for every zero value of a concrete type, without
\* being invoked.
C30_ZeroTypeIdentity ==
    (/\ pc = "done" /\ op \in FoldOps
     /\ Kind(slc) = "slice" /\ Kind(fn) = "func"
     /\ Satisfies(op, fn, slc.elem)
     /\ zero.t # "nil") =>
        /\ err = "none" <=> zero.t = fn.out[1]
        /\ fn.out[1] = "iface" =>
              (err = "ZeroTypeMismatch" /\ calls = <<>> /\ ret = NilIface)

\* an int zero offered to a callback accumulating in interface{}, over a
\* non-empty sequence
C30_Witness ==
    /\ Done("Foldl")
    /\ Kind(slc) = "slice" /\ SliceLen(slc) > 0
    /\ Kind(fn) = "func"
    /\ Satisfies(op, fn, slc.elem)
    /\ fn.out = <<"iface">>
    /\ zero = IntV(0)
    /\ err = "ZeroTypeMismatch"

====
